---------------------------- MODULE Spec2Model ----------------------------
(***************************************************************************)
(* Model of waybar/meetings.py: one run of get_meetings() followed by the  *)
(* rendering of its result in the __main__ block.                          *)
(*                                                                         *)
(* Time.  TLC integers are 32 bits wide, the program's timestamps reach    *)
(* 10^17, so every timestamp and instant is a two-limb number <<hi, lo>>   *)
(* of value hi * 10^9 + lo with 0 <= lo < 10^9.  Instants are microseconds *)
(* since the epoch (the resolution of datetime); timedelta is the same     *)
(* with a possibly negative hi.  The observer's zone (tzlocal()) is UTC,   *)
(* so astimezone(local_tz) keeps the instant and cannot overflow.          *)
(*                                                                         *)
(* Environment.  The file system, SQLite and dateutil are outside the      *)
(* program: their answers (does the copy succeed, what does the table      *)
(* hold, does the rule parse) are drawn with \E at the step that consumes  *)
(* them.  The rows of a store are revealed one by one as the loop of       *)
(* line 220 reads them; what the program learnt before (MAX(event_start),  *)
(* whether there are rows at all) constrains the rows revealed later.      *)
(***************************************************************************)
EXTENDS Integers, Sequences, FiniteSets, TLC

VARIABLES
    pc,               \* position in get_meetings / __main__
    debug_on,         \* os.environ.get("DEBUG") == "1"
    today,            \* now_local.date() of the first clock reading (day number)
    db,               \* index of the candidate being processed (for db in candidates)
    tmpdir,           \* snapshot files present in the TemporaryDirectory
    conns,            \* candidates whose sqlite3 connection is open
    table,            \* what is known of the current snapshot's cal_events table
    unit,             \* detect_unit(conn) of the current store
    exceptions,       \* negative exceptions of the current store
    row,              \* the row the loop of line 220 read last
    todays_instances, \* the aggregated (start, end) list
    used_dbs,         \* the store of each appended pair, in append order
    scanned_summary,  \* one debug line per finished store
    now_local,        \* the clock reading of line 314
    result,           \* what get_meetings returned: next, count, error, dbg
    output,           \* the JSON object printed by __main__
    budget            \* rows the stores not yet queried may still hold (bound)

vars == <<pc, debug_on, today, db, tmpdir, conns, table, unit, exceptions, row,
          todays_instances, used_dbs, scanned_summary, now_local, result, output,
          budget>>

\* Python's None, and SQL NULL
None == <<>>

-----------------------------------------------------------------------------
(* Bounds of the model *)

\* candidate stores returned by list_candidate_sqlites
MaxStores == 2
\* rows read from the cal_events tables during one run, all stores together
MaxRows == 2

-----------------------------------------------------------------------------
(* Two-limb arithmetic *)

Base == 10^9

Big(n) == <<n \div Base, n % Base>>

BigLeq(a, b) == a[1] < b[1] \/ (a[1] = b[1] /\ a[2] <= b[2])

BigLess(a, b) == a[1] < b[1] \/ (a[1] = b[1] /\ a[2] < b[2])

BigAdd(a, b) ==
    IF a[2] + b[2] >= Base THEN <<a[1] + b[1] + 1, a[2] + b[2] - Base>>
                           ELSE <<a[1] + b[1], a[2] + b[2]>>

BigSub(a, b) ==
    IF a[2] < b[2] THEN <<a[1] - b[1] - 1, a[2] + Base - b[2]>>
                   ELSE <<a[1] - b[1], a[2] - b[2]>>

\* a * m for m in {1, 10^3, 10^6} and a >= 0
BigMul(a, m) == <<a[1] * m + a[2] \div (Base \div m), (a[2] % (Base \div m)) * m>>

\* floor(a / m) for m in {1, 10^3, 10^6} and a >= 0
BigDiv(a, m) == <<a[1] \div m, (a[1] % m) * (Base \div m) + a[2] \div m>>


BigAbs(a) == IF a[1] < 0 THEN BigSub(<<0, 0>>, a) ELSE a

-----------------------------------------------------------------------------
(* Epoch units and datetime *)

\* the factors detect_unit returns
US == 1000000
MS == 1000
SEC == 1

\* datetime.max as an instant: 9999-12-31 23:59:59.999999 UTC
DT_MAX == <<253402300, 799999999>>

\* time.max - time.min, 23:59:59.999999
DAY_SPAN == <<86, 399999999>>

\* conn.execute("SELECT MAX(event_start) ...") of detect_unit raised
QueryError == <<"QueryError">>

\* (mutant) the thresholds compared with > where the code has >=
UnitOfMagnitudeStrict(v) ==
    IF BigLess(<<10^6, 0>>, v) THEN US
    ELSE IF BigLess(<<10^3, 0>>, v) THEN MS
    ELSE IF BigLess(<<1, 0>>, v) THEN SEC
    ELSE US

\* the classification of lines 126-130 for v = abs(int(val))
UnitOfMagnitude(v) ==
    IF BigLeq(<<10^6, 0>>, v) THEN US
    ELSE IF BigLeq(<<10^3, 0>>, v) THEN MS
    ELSE IF BigLeq(<<1, 0>>, v) THEN SEC
    ELSE US

\* detect_unit(conn); val is what SELECT MAX(event_start) answers
detect_unit(val) ==
    IF val = QueryError THEN US
    ELSE IF val = None THEN US
    ELSE UnitOfMagnitude(BigAbs(val))

\* from_epoch(ts, factor, tzinfo): the instant, or None when int(ts) or
\* datetime.fromtimestamp raises (NULL, year out of range)
from_epoch(ts, factor) ==
    IF ts = None THEN None
    ELSE IF ts[1] < 0 THEN None
    ELSE IF BigLeq(ts, BigDiv(DT_MAX, US \div factor)) THEN BigMul(ts, US \div factor)
    ELSE None

\* to_epoch(dt, factor) == int(dt.timestamp() * factor)
to_epoch(dt, factor) == BigDiv(dt, US \div factor)

\* datetime + timedelta: OverflowError beyond datetime.max (and below year 1,
\* which no instant of the model reaches: every instant is >= the epoch)
Overflow == <<"OverflowError">>

DatetimeAdd(dt, delta) ==
    LET r == BigAdd(dt, delta)
    IN  IF BigLess(DT_MAX, r) \/ r[1] < 0 THEN Overflow ELSE r

\* datetime.combine(now_local.date(), time.min / time.max, tzinfo=local_tz)
sod_local == BigMul(Big(today * 86400), US)

eod_local == BigAdd(sod_local, DAY_SPAN)

\* dt.strftime("%H:%M") in the observer's zone: hour and minute of the day
strftime(dt) ==
    LET s   == BigDiv(dt, US)
        sod == (s[1] * (Base % 86400) + s[2]) % 86400
    IN  <<sod \div 3600, (sod % 3600) \div 60>>

-----------------------------------------------------------------------------
(* dateutil, as get_meetings uses it *)

\* tz_str of a row that is not text (a BLOB or a number in the dynamically
\* typed column): gettz raises TypeError / AttributeError on it
BlobTz == "<blob>"

gettz_raises(tz_str) == tz_str = BlobTz

\* rrulestr(rrule_str, dtstart=dtstart) raises ValueError: the rule text cannot
\* be parsed (rule.between raising on a rule that parsed lands in the same handler,
\* at the same point: no instance has been looked at yet)
rrulestr_raises(rrule_str) == rrule_str = "BAD"

\* the period of the rules the model draws, in seconds
PeriodSecs(rrule_str) == IF rrule_str = "FREQ=DAILY" THEN 86400 ELSE 5 * 3600

\* the instant t modulo a period of p seconds, as a timedelta
Phase(t, p) ==
    LET s == BigDiv(t, US)
        r == (s[1] * (Base % p) + s[2]) % p
    IN  <<r \div 1000, ((r % 1000) * US) + (t[2] % US)>>

\* the first of t, t + p, t + 2p, ... that is not before after
FirstFrom(t, p, after) ==
    IF BigLeq(after, t) THEN t
    ELSE LET d == BigSub(Phase(t, p), Phase(after, p))
         IN  BigAdd(after, IF d[1] < 0 THEN BigAdd(d, BigMul(Big(p), US)) ELSE d)

\* the instants t, t + p, ... up to before
RECURSIVE UpTo(_, _, _)
UpTo(t, p, before) ==
    IF BigLess(before, t) THEN <<>>
    ELSE <<t>> \o UpTo(BigAdd(t, BigMul(Big(p), US)), p, before)

\* rule.between(sod_local, eod_local, inc=True): the instants dtstart + k * period,
\* k >= 0, that lie in the day window
between(rrule_str, dtstart) ==
    UpTo(FirstFrom(dtstart, PeriodSecs(rrule_str), sod_local), PeriodSecs(rrule_str),
         eod_local)

-----------------------------------------------------------------------------
(* The resolver: lines 220-270 for one row *)

\* (mutant) the test without the upper bound of starts_today
KeepFromToday(start_local, end_local) ==
    \/ BigLeq(sod_local, start_local)
    \/ end_local # None /\ BigLeq(start_local, eod_local) /\ BigLeq(sod_local, end_local)

\* starts_today or overlaps_today
KeepToday(start_local, end_local) ==
    LET overlaps_today == /\ end_local # None
                          /\ BigLeq(start_local, eod_local)
                          /\ BigLeq(sod_local, end_local)
        starts_today == BigLeq(sod_local, start_local) /\ BigLeq(start_local, eod_local)
    IN  starts_today \/ overlaps_today

\* (cal_id, inst_utc) not in exceptions
NotCancelled(cal_id, inst_utc) == <<cal_id, inst_utc>> \notin exceptions

\* the pairs the base start/end contributes: lines 252-259 and 263-270
Anchor(dtstart, dtend) ==
    LET start_local == dtstart
        end_local == IF dtend # None THEN dtend ELSE None
    IN  IF KeepToday(start_local, end_local) THEN <<<<start_local, end_local>>>> ELSE <<>>

\* lines 238-249 for one instance: what it appends, or that it raised
Instance(inst, duration, cal_id) ==
    LET inst_start_local == inst
        inst_end_local == IF duration # None /\ duration # <<0, 0>>
                          THEN DatetimeAdd(inst_start_local, duration)
                          ELSE None
        inst_utc == to_epoch(inst, unit)
    IN  IF inst_end_local = Overflow THEN [raised |-> TRUE, app |-> <<>>]
        ELSE [raised |-> FALSE,
              app |-> IF NotCancelled(cal_id, inst_utc)
                         /\ KeepToday(inst_start_local, inst_end_local)
                      THEN <<<<inst_start_local, inst_end_local>>>>
                      ELSE <<>>]

\* the for loop of line 237 from instance i on: the pairs appended before the
\* loop ended or an instance raised
RECURSIVE Instances(_, _, _, _)
Instances(insts, i, duration, cal_id) ==
    IF i > Len(insts) THEN [raised |-> FALSE, app |-> <<>>]
    ELSE LET one == Instance(insts[i], duration, cal_id)
         IN  IF one.raised THEN one
             ELSE LET rest == Instances(insts, i + 1, duration, cal_id)
                  IN  [raised |-> rest.raised, app |-> one.app \o rest.app]

\* the except branch of line 250
Fallback(dtstart, dtend) == Anchor(dtstart, dtend)

\* lines 230-259: a row with a rule
Recurring(rec, dtstart, dtend) ==
    LET duration == IF dtend # None THEN BigSub(dtend, dtstart) ELSE None
    IN  IF rrulestr_raises(rec.rrule_str) THEN Fallback(dtstart, dtend)
        ELSE LET loop == Instances(between(rec.rrule_str, dtstart), 1, duration, rec.cal_id)
             IN  IF loop.raised THEN loop.app \o Fallback(dtstart, dtend)
                 ELSE loop.app

\* lines 221-270: the pairs one row appends to todays_instances; raised when an
\* exception leaves the loop body (to the handler of line 291)
ProcessRow(rec) ==
    IF gettz_raises(rec.tz_str) THEN [raised |-> TRUE, app |-> <<>>]
    ELSE LET dtstart == from_epoch(rec.start_ts, unit)
             dtend == IF rec.end_ts # None THEN from_epoch(rec.end_ts, unit) ELSE None
         IN  [raised |-> FALSE,
              app |-> IF dtstart = None THEN <<>>
                      ELSE IF rec.rrule_str # "" THEN Recurring(rec, dtstart, dtend)
                      ELSE Anchor(dtstart, dtend)]

-----------------------------------------------------------------------------
(* What the environment may hold *)

\* the date of the run: 2025-11-05, as days since the epoch
Dates == {20397}

\* hour of the day of the run at which line 314 reads the clock again (25: the
\* run started before and ended after midnight)
NowHours == {8, 12, 25}

\* the true scale of a store's timestamps, in counts per second
Scales == {SEC, MS, US}

At(day, hour) == Big(day * 86400 + hour * 3600)

\* event starts, in seconds: yesterday 09:00, today 09:00 and 14:00, tomorrow 09:00
StartSecs == {At(today - 1, 9), At(today, 9), At(today, 14), At(today + 1, 9)}

\* starts of 2001-09-09, one second below and at 10^9 seconds: in the three
\* scales they are the six values next to detect_unit's thresholds
OldSecs == {Big(10^9 - 1), Big(10^9)}

\* event ends, in seconds: today 09:00 and 16:00, and 9999-12-31 22:00:00
EndSecs == {At(today, 9), At(today, 16), <<253, 402293600>>}

RuleTexts == {"", "BAD", "FREQ=DAILY", "FREQ=HOURLY;INTERVAL=5"}

Raw(secs, scale) == BigMul(secs, scale)

\* rows of cal_events LEFT JOIN cal_properties in a store of the given scale.
\* A row whose start is NULL or whose zone is not text is dropped before any
\* other field is read, a row of 2001 is plain: one row stands for each kind.
RowsOf(scale) ==
    [cal_id : {"c1"},
     start_ts : {Raw(t, scale) : t \in StartSecs},
     end_ts : {None} \cup {Raw(t, scale) : t \in EndSecs},
     tz_str : {"UTC"},
     rrule_str : RuleTexts]
    \cup
    [cal_id : {"c1"},
     start_ts : {None} \cup {Raw(t, scale) : t \in OldSecs},
     end_ts : {None}, tz_str : {"UTC"}, rrule_str : {""}]
    \cup
    {[cal_id |-> "c1", start_ts |-> None, end_ts |-> None, tz_str |-> BlobTz,
      rrule_str |-> ""]}

\* what SELECT MAX(event_start) may answer in a store of the given scale
MaxStarts(scale) == {None} \cup {Raw(t, scale) : t \in StartSecs \cup OldSecs}

\* rows of cal_exceptions with is_negative = 1
ExceptionKeys(scale) == {<<"c1", Raw(At(today, 9), scale)>>}

-----------------------------------------------------------------------------
(* get_meetings *)

NoNext == <<"--">>

NoTable == [scale |-> SEC, max |-> None, readable |-> TRUE, left |-> 0, seen |-> FALSE]

NoRow == [cal_id |-> "", start_ts |-> None, end_ts |-> None, tz_str |-> "",
          rrule_str |-> ""]

Init ==
    /\ pc = "start"
    /\ debug_on = FALSE
    /\ today = 0
    /\ db = 0
    /\ tmpdir = {}
    /\ conns = {}
    /\ table = NoTable
    /\ unit = US
    /\ exceptions = {}
    /\ row = NoRow
    /\ todays_instances = <<>>
    /\ used_dbs = <<>>
    /\ scanned_summary = <<>>
    /\ now_local = None
    /\ result = None
    /\ output = None
    /\ budget = MaxRows

\* lines 146-167: the early returns, the clock, the empty collections.  DEBUG is
\* read here and used from line 301 on; the environment does not change during
\* the run, and the model draws it where it is first used.
Start ==
    /\ pc = "start"
    /\ \E profile \in BOOLEAN, found \in BOOLEAN, d \in Dates :
         IF ~profile
         THEN /\ result' = <<NoNext, 0, <<"Profile not found">>, <<"debug: no profile">>>>
              /\ pc' = "returned"
              /\ UNCHANGED <<today, db>>
         ELSE IF ~found
         THEN /\ result' = <<NoNext, 0, <<"No .sqlite candidates found">>,
                             <<"debug: searched profile">>>>
              /\ pc' = "returned"
              /\ UNCHANGED <<today, db>>
         ELSE /\ today' = d
              /\ db' = 1
              /\ pc' = "snapshot"
              /\ UNCHANGED result
    /\ UNCHANGED <<debug_on, tmpdir, conns, table, unit, exceptions, row,
                   todays_instances, used_dbs, scanned_summary, now_local, output, budget>>

\* continue: the next candidate of the for loop of line 170, if the list holds
\* one more.  The locals of the store left behind are dead: the model clears them.
Continue(line) ==
    /\ scanned_summary' = Append(scanned_summary, line)
    /\ db' = db + 1
    /\ \E more \in BOOLEAN :
          pc' = IF more /\ db < MaxStores THEN "snapshot" ELSE "exit"
    /\ table' = NoTable
    /\ unit' = US
    /\ exceptions' = {}
    /\ row' = NoRow

\* lines 171-176: snapshot_sqlite and open_ro.  A copy may fail before or after
\* the base file was copied; sqlite3.connect may fail; the PRAGMA may fail after
\* the connection was created, and nothing closes it: it stays open until the
\* garbage collector finalises it, at once where objects are reference-counted
\* and at an unknown later time elsewhere.
OpenStore ==
    /\ pc = "snapshot"
    /\ \/ /\ UNCHANGED <<tmpdir, conns>>
          /\ Continue(<<db, "open-failed">>)
       \/ /\ tmpdir' = tmpdir \cup {db}
          /\ UNCHANGED conns
          /\ Continue(<<db, "open-failed">>)
       \/ /\ tmpdir' = tmpdir \cup {db}
          /\ \E collected \in BOOLEAN :
                conns' = IF collected THEN conns ELSE conns \cup {db}
          /\ Continue(<<db, "open-failed">>)
       \/ /\ tmpdir' = tmpdir \cup {db}
          /\ conns' = conns \cup {db}
          /\ pc' = "query"
          /\ UNCHANGED <<db, scanned_summary, table, unit, exceptions, row>>
    /\ UNCHANGED <<debug_on, today, todays_instances, used_dbs, now_local, result, output,
                   budget>>

\* lines 178-214: has_cal_events, detect_unit, the exception set, the rows
QueryStore ==
    /\ pc = "query"
    /\ conns' = conns \ {db}
    /\ \/ \* has_cal_events raises: the handler of line 291
          /\ Continue(<<db, "error">>)
          /\ UNCHANGED budget
       \/ \* no cal_events table
          /\ Continue(<<db, "no cal_events">>)
          /\ UNCHANGED budget
       \/ \E scale \in Scales, n \in 0..budget, unreadable \in BOOLEAN,
             cancelled \in BOOLEAN, fetched \in BOOLEAN :
          \E mx \in IF n = 0 THEN {None} ELSE MaxStarts(scale) :
          \E keys \in IF cancelled THEN SUBSET ExceptionKeys(scale) ELSE {{}} :
             IF ~fetched
             THEN \* the SELECT of line 198 raises
                  /\ Continue(<<db, "error">>)
                  /\ UNCHANGED budget
             ELSE IF n = 0
             THEN /\ Continue(<<db, "0 rows">>)
                  /\ UNCHANGED budget
             ELSE /\ unit' = detect_unit(IF unreadable THEN QueryError ELSE mx)
                  /\ exceptions' = keys
                  /\ table' = [scale |-> scale, max |-> mx, readable |-> ~unreadable,
                                left |-> n, seen |-> FALSE]
                  /\ budget' = budget - n
                  /\ pc' = "rows"
                  /\ UNCHANGED <<db, scanned_summary, row>>
    /\ UNCHANGED <<debug_on, today, tmpdir, todays_instances, used_dbs, now_local, result,
                   output>>

\* the rows the cursor may yield next, given what MAX(event_start) answered
NextRows ==
    {x \in RowsOf(table.scale) :
        /\ x.start_ts # None => table.max # None /\ BigLeq(x.start_ts, table.max)
        /\ (table.left = 1 /\ ~table.seen /\ table.max # None /\ x.tz_str # BlobTz)
              => x.start_ts = table.max}

Repeat(x, n) == [i \in 1..n |-> x]

\* lines 220-270 for one row, and the handler of line 291 when it raises
RowStep ==
    /\ pc = "rows"
    /\ table.left > 0
    /\ \E next \in NextRows :
         LET r == ProcessRow(next)
         IN  IF r.raised
             THEN /\ Continue(<<db, "error">>)
                  /\ UNCHANGED <<todays_instances, used_dbs>>
             ELSE /\ todays_instances' = todays_instances \o r.app
                  /\ used_dbs' = used_dbs \o Repeat(db, Len(r.app))
                  /\ table' = [table EXCEPT !.left = @ - 1,
                                            !.seen = @ \/ next.start_ts = table.max]
                  /\ row' = next
                  /\ UNCHANGED <<pc, db, scanned_summary, unit, exceptions>>
    /\ UNCHANGED <<debug_on, today, tmpdir, conns, now_local, result, output, budget>>

\* lines 272-289: the store's debug line
EndRows ==
    /\ pc = "rows"
    /\ table.left = 0
    /\ Continue(<<db, "ok", unit>>)
    /\ UNCHANGED <<debug_on, today, tmpdir, conns, todays_instances, used_dbs, now_local,
                   result, output, budget>>

\* the end of the with block of line 169: the TemporaryDirectory is removed
ExitWith ==
    /\ pc = "exit"
    /\ tmpdir' = {}
    /\ pc' = "aggregate"
    /\ UNCHANGED <<debug_on, today, db, conns, table, unit, exceptions, row,
                   todays_instances, used_dbs, scanned_summary, now_local, result, output,
                   budget>>

\* (mutant) the list left in append order
Unsorted(seq) == seq

\* todays_instances.sort(key=lambda t: t[0]): stable, ascending by start
RECURSIVE SortByStart(_)
SortByStart(seq) ==
    IF seq = <<>> THEN <<>>
    ELSE LET x == Head(seq)
             rest == SortByStart(Tail(seq))
             k == Cardinality({i \in 1..Len(rest) : BigLess(rest[i][1], x[1])})
         IN  SubSeq(rest, 1, k) \o <<x>> \o SubSeq(rest, k + 1, Len(rest))

\* (mutant) remaining by start alone, whatever the end
IsLeftByStart(t, now) == BigLeq(now, t[1])

\* (mutant) remaining by end alone: a pair without end never counts
IsLeftByEnd(t, now) == t[2] # None /\ BigLeq(now, t[2])

\* lines 315-318: whether a pair is still to come at now
IsLeft(t, now) ==
    \/ t[2] # None /\ BigLeq(now, t[2])
    \/ t[2] = None /\ BigLeq(now, t[1])

\* lines 322-326: the first start >= now of the sorted list, as HH:MM
NextMeetingTime(sorted, now) ==
    LET upcoming == SelectSeq(sorted, LAMBDA t : BigLeq(now, t[1]))
    IN  IF upcoming = <<>> THEN NoNext ELSE strftime(upcoming[1][1])

\* sorted({os.path.basename(p) for p in used_dbs})
UsedSet == {used_dbs[i] : i \in 1..Len(used_dbs)}

\* lines 299-337: the two projections and the debug string (of which the row
\* counters total_scanned, total_recur and total_single are left out)
Aggregate ==
    /\ pc = "aggregate"
    /\ \E hour \in NowHours, debug \in BOOLEAN :
         LET now == BigMul(At(today, hour), US)
             sorted == SortByStart(todays_instances)
             left_count == Len(SelectSeq(sorted, LAMBDA t : IsLeft(t, now)))
         IN  /\ debug_on' = debug
             /\ now_local' = now
             /\ IF todays_instances = <<>>
                THEN /\ result' = <<NoNext, 0, None,
                                    IF debug THEN <<"today=0", scanned_summary, UsedSet>>
                                             ELSE None>>
                     /\ UNCHANGED todays_instances
                ELSE /\ todays_instances' = sorted
                     /\ result' = <<NextMeetingTime(sorted, now), left_count, None,
                                    IF debug
                                    THEN <<"today=", Len(sorted), left_count, UsedSet,
                                           strftime(sorted[1][1]),
                                           strftime(sorted[Len(sorted)][1])>>
                                    ELSE None>>
    /\ pc' = "returned"
    /\ UNCHANGED <<today, db, tmpdir, conns, table, unit, exceptions, row, used_dbs,
                   scanned_summary, output, budget>>

\* lines 341-353: the text and the tooltip printed for Waybar
Render ==
    /\ pc = "returned"
    /\ LET next_time == result[1]
           left_count == result[2]
           error_msg == result[3]
           debug_info == result[4]
           lines == IF error_msg # None
                    THEN <<<<"Error: ", error_msg>>>>
                    ELSE <<<<"Next meeting: ", next_time>>, <<"Left today: ", left_count>>>>
       IN  output' = [text |-> IF error_msg # None THEN <<NoNext, 0>>
                               ELSE <<next_time, left_count>>,
                      tooltip |-> IF debug_info # None THEN Append(lines, debug_info)
                                  ELSE lines,
                      class |-> "meetings"]
    /\ pc' = "done"
    /\ UNCHANGED <<debug_on, today, db, tmpdir, conns, table, unit, exceptions, row,
                   todays_instances, used_dbs, scanned_summary, now_local, result, budget>>

Next ==
    \/ Start
    \/ OpenStore
    \/ QueryStore
    \/ RowStep
    \/ EndRows
    \/ ExitWith
    \/ Aggregate
    \/ Render

Spec == Init /\ [][Next]_vars

-----------------------------------------------------------------------------
(* Properties *)

Returned == pc \in {"returned", "done"}

\* get_meetings went through lines 299-337 (no early return)
Aggregated == Returned /\ now_local # None

Indices == 1..Len(todays_instances)

StartOf(i) == todays_instances[i][1]

EndOf(i) == todays_instances[i][2]

\* the pairs the step appended to todays_instances
Appended == SubSeq(todays_instances', Len(todays_instances) + 1, Len(todays_instances'))

\* the step processed one row to the end of the loop body; row' is that row
RowProcessed == pc = "rows" /\ pc' = "rows" /\ table'.left = table.left - 1

\* C1: every (start, end) pair of the aggregated list starts within the day
\* window, or has an end and overlaps it: start <= end-of-day and end >= start-of-day.
C1_DayWindow ==
    \A i \in Indices :
       \/ BigLeq(sod_local, StartOf(i)) /\ BigLeq(StartOf(i), eod_local)
       \/ EndOf(i) # None /\ BigLeq(StartOf(i), eod_local) /\ BigLeq(sod_local, EndOf(i))

\* a finished run over two stores that both contributed, with a pair that starts
\* before the window and overlaps it and a pair that starts within it
C1_Witness ==
    /\ pc = "done"
    /\ Cardinality(UsedSet) = 2
    /\ \E i \in Indices : BigLess(StartOf(i), sod_local) /\ EndOf(i) # None
    /\ \E i \in Indices : BigLeq(sod_local, StartOf(i))

\* C2 (as claimed): an instance a recurring row expands to, whose key under the
\* store's unit is in the store's exception set with the row's series id, is not
\* among the pairs the row appends, whatever path the row's processing takes.
C2_Suppression ==
    [][RowProcessed /\ row'.rrule_str # "" /\ ~rrulestr_raises(row'.rrule_str)
          /\ from_epoch(row'.start_ts, unit) # None
       => LET insts == between(row'.rrule_str, from_epoch(row'.start_ts, unit))
              cancelled == {insts[k] : k \in {j \in 1..Len(insts) :
                               <<row'.cal_id, to_epoch(insts[j], unit)>> \in exceptions}}
          IN  \A k \in 1..Len(Appended) : Appended[k][1] \notin cancelled]_vars

\* C3 (as claimed): when every candidate failed at snapshot, open or query, the
\* result carries an error and the tooltip printed opens with the error line,
\* not with the "Next meeting" line of a run that read a store and found no meeting.
C3_ErrorWhenNoStoreUsable ==
    (/\ pc = "done"
     /\ scanned_summary # <<>>
     /\ \A k \in 1..Len(scanned_summary) : scanned_summary[k][2] \in {"open-failed", "error"}
     /\ todays_instances = <<>>)
    => /\ result[3] # None
       /\ output.tooltip[1][1] = "Error: "

\* C4 (as claimed): the aggregated list holds pairs only of stores whose
\* processing completed (or is still under way): a store that failed, at any
\* point, contributed none.
C4_FailedStoreContributesNothing ==
    \A d \in UsedSet :
       \/ d = db /\ pc = "rows"
       \/ \E k \in 1..Len(scanned_summary) :
             scanned_summary[k][1] = d /\ scanned_summary[k][2] = "ok"

\* C5: the count returned is the number of pairs with an end >= now plus the
\* number of pairs without end and with start >= now, and lies between 0 and the
\* number of pairs.
C5_RemainingCount ==
    Aggregated =>
       /\ result[2] = Cardinality({i \in Indices : EndOf(i) # None /\ BigLeq(now_local, EndOf(i))})
                      + Cardinality({i \in Indices : EndOf(i) = None
                                                     /\ BigLeq(now_local, StartOf(i))})
       /\ 0 <= result[2]
       /\ result[2] <= Len(todays_instances)

\* a run with a finished meeting, an ongoing one (started before now, ends after)
\* and a count strictly between 0 and the number of pairs
C5_Witness ==
    /\ pc = "done"
    /\ Aggregated
    /\ 0 < result[2]
    /\ result[2] < Len(todays_instances)
    /\ \E i \in Indices : BigLess(StartOf(i), now_local) /\ EndOf(i) # None
                           /\ BigLeq(now_local, EndOf(i))
    /\ \E i \in Indices : EndOf(i) # None /\ BigLess(EndOf(i), now_local)

\* the starts that are not before now
Upcoming == {StartOf(i) : i \in {j \in Indices : BigLeq(now_local, StartOf(j))}}

\* C6: the next start returned is the least start >= now of all pairs (as HH:MM),
\* and "--" exactly when no pair has a start >= now.
C6_NextStart ==
    Aggregated =>
       IF Upcoming = {} THEN result[1] = NoNext
       ELSE result[1] = strftime(CHOOSE s \in Upcoming : \A t \in Upcoming : BigLeq(s, t))

\* a run over two stores that both contributed, with a start before now and two
\* different starts after it, the earlier of which (14:00) is returned
C6_Witness ==
    /\ pc = "done"
    /\ Aggregated
    /\ Cardinality(Upcoming) >= 2
    /\ UsedSet = {1, 2}
    /\ result[1] = <<14, 0>>
    /\ \E i \in Indices : BigLess(StartOf(i), now_local)

\* C7 (as claimed): at most one snapshot and at most one open handle at any time;
\* none of either when the next candidate is attempted, and no snapshot after the run.
C7_OneSnapshotOneHandle ==
    /\ Cardinality(tmpdir) <= 1
    /\ Cardinality(conns) <= 1
    /\ pc = "snapshot" => tmpdir = {} /\ conns = {}
    /\ pc \in {"aggregate", "returned", "done"} => tmpdir = {}

\* the factor the claim assigns to a store: by the magnitude of the largest
\* start, microseconds when there is none or the table cannot be read
ClaimedUnit ==
    IF ~table.readable \/ table.max = None THEN 1000000
    ELSE IF BigLeq(<<1000000, 0>>, table.max) THEN 1000000
    ELSE IF BigLeq(<<1000, 0>>, table.max) THEN 1000
    ELSE IF BigLeq(<<1, 0>>, table.max) THEN 1
    ELSE 1000000

\* C8: while the rows of a store are processed the factor in use is the one the
\* magnitude of its largest start gives (>= 10^15: 10^6, >= 10^12: 10^3,
\* >= 10^9: 1, else, or empty, or unreadable: 10^6), for every row alike, and a
\* plain row kept for today was appended with its start and end converted by it.
C8_UnitInference ==
    pc = "rows" =>
       /\ unit = ClaimedUnit
       /\ (/\ row # NoRow
           /\ row.rrule_str = ""
           /\ from_epoch(row.start_ts, ClaimedUnit) # None
           /\ KeepToday(from_epoch(row.start_ts, ClaimedUnit),
                        from_epoch(row.end_ts, ClaimedUnit)))
          => todays_instances[Len(todays_instances)]
                = <<from_epoch(row.start_ts, ClaimedUnit), from_epoch(row.end_ts, ClaimedUnit)>>

\* a store in milliseconds, its second row a plain one kept with start and end
C8_Witness ==
    /\ pc = "rows"
    /\ unit = MS
    /\ table.readable
    /\ table.left = 0
    /\ row.rrule_str = ""
    /\ row.end_ts # None
    /\ todays_instances # <<>>
    /\ todays_instances[Len(todays_instances)]
          = <<from_epoch(row.start_ts, MS), from_epoch(row.end_ts, MS)>>

\* the row's rule could not be evaluated: it did not parse, or an instance raised
EvaluationFailed(rec) ==
    LET dtstart == from_epoch(rec.start_ts, unit)
        dtend == from_epoch(rec.end_ts, unit)
    IN  \/ rrulestr_raises(rec.rrule_str)
        \/ Instances(between(rec.rrule_str, dtstart), 1,
                     IF dtend # None THEN BigSub(dtend, dtstart) ELSE None, rec.cal_id).raised

\* C9 (as claimed): a recurring row whose rule evaluation fails, at parsing or
\* while an instance is processed, appends nothing or exactly one pair, its
\* anchor start and end, and the loop goes on to the next row.
C9_RuleFailureDegrades ==
    [][(/\ pc = "rows"
        /\ table'.left = table.left - 1
        /\ row'.rrule_str # ""
        /\ from_epoch(row'.start_ts, unit) # None
        /\ EvaluationFailed(row'))
       => /\ pc' = "rows"
          /\ Appended \in {<<>>, <<<<from_epoch(row'.start_ts, unit),
                                    from_epoch(row'.end_ts, unit)>>>>}]_vars

\* C10 (as claimed): a run that returns a next meeting returns a count of at least 1.
C10_NextImpliesLeft ==
    Aggregated /\ result[1] # NoNext => result[2] >= 1

\* C10 (amended): if no pair of the list ends before it starts, a run that
\* returns a next meeting returns a count of at least 1.
C10_NextImpliesLeftWhenOrdered ==
    (/\ Aggregated
     /\ \A i \in Indices : EndOf(i) = None \/ BigLeq(StartOf(i), EndOf(i))
     /\ result[1] # NoNext)
    => result[2] >= 1

\* a run with two upcoming meetings, one without end and one that ends when it
\* starts, both counted
C10_Witness ==
    /\ pc = "done"
    /\ Aggregated
    /\ result[1] # NoNext
    /\ result[2] = 2
    /\ \A i \in Indices : EndOf(i) = None \/ BigLeq(StartOf(i), EndOf(i))
    /\ \E i \in Indices : EndOf(i) = None /\ BigLeq(now_local, StartOf(i))
    /\ \E i \in Indices : EndOf(i) = StartOf(i) /\ BigLeq(now_local, StartOf(i))

=============================================================================
